---------------------------- MODULE Spec2Model ----------------------------
(***************************************************************************)
(* Spaced-repetition tracker: the date calculator (dates.mjs) and the UI   *)
(* controller that drives it (script.mjs, storage behind getData/addData). *)
(*                                                                         *)
(* Time values are the time values of ECMAScript Date objects, counted in  *)
(* minutes since 1970-01-01T00:00Z instead of milliseconds (no operation   *)
(* of the program touches seconds or milliseconds).  An Invalid Date has   *)
(* the time value NaN.  A Date object is a cell of a heap (a sequence of   *)
(* time values); its identity is its index.                                *)
(*                                                                         *)
(* A date string "YYYY-MM-DD" is the record of its three numeric fields;   *)
(* the empty string is EmptyString.  An ISO-8601 string is the record of   *)
(* its fields.  A topic is a run-length encoded string: a sequence of runs *)
(* [c |-> character, n |-> repetitions], adjacent runs differing in c.     *)
(***************************************************************************)
EXTENDS Integers, Sequences, FiniteSets, TLC

VARIABLES
    now,            \* host clock: the current instant (time value)
    tzOffset,       \* host A: local time = UTC + tzOffset (minutes)
    tzOffsetB,      \* host B (a second host reading the same clock)
    lenientParse,   \* host engine: does Date parsing roll an over-long day over
    heap,           \* calculator harness: the Date objects alive
    dateString,     \* calculator harness: the start date string under test
    call,           \* calculator harness: the last call and what it returned
    fmtLog,         \* calculator harness: <<object, string>> of each formatDate call
    outA,           \* two-host harness: last result on host A
    outB,           \* two-host harness: last result on host B
    currentUserId,  \* script.mjs: let currentUserId
    storage,        \* storage.mjs: per-user records
    agendaContent,  \* DOM: #agenda-content
    sectionsShown,  \* DOM: #agenda-section / #form-section displayed
    errors,         \* DOM: the two .error-message elements
    event           \* what happened last: the event handled, with its payload

vars == <<now, tzOffset, tzOffsetB, lenientParse, heap, dateString, call, fmtLog,
          outA, outB, currentUserId, storage, agendaContent, sectionsShown,
          errors, event>>

hostVars == <<now, tzOffset, tzOffsetB, lenientParse>>
calcVars == <<heap, dateString, call, fmtLog>>
twoHostVars == <<outA, outB>>
appVars == <<currentUserId, storage, agendaContent, sectionsShown, errors, event>>

-----------------------------------------------------------------------------
(* ECMAScript time values and calendar (ECMA-262, Date objects)            *)

NaN == -2147483647

MinPerDay == 24 * 60

IsNaN(x) == x = NaN

Day(t) == t \div MinPerDay

TimeWithinDay(t) == t % MinPerDay

IsLeapYear(y) == (y % 4 = 0 /\ y % 100 # 0) \/ y % 400 = 0

DayFromYear(y) ==
    365 * (y - 1970) + ((y - 1969) \div 4) - ((y - 1901) \div 100)
        + ((y - 1601) \div 400)

YearFromDay(d) ==
    CHOOSE y \in (1970 + (d \div 366) - 1) .. (1970 + (d \div 365) + 1) :
        DayFromYear(y) <= d /\ d < DayFromYear(y + 1)

YearFromTime(t) == YearFromDay(Day(t))

DayWithinYear(t) == Day(t) - DayFromYear(YearFromTime(t))

\* day within the year on which month m (0..11; 12 = the year's end) starts
MonthStart(m, leap) ==
    <<0, 31, 59, 90, 120, 151, 181, 212, 243, 273, 304, 334, 365>>[m + 1]
        + (IF leap /\ m >= 2 THEN 1 ELSE 0)

MonthFromTime(t) ==
    LET leap == IsLeapYear(YearFromTime(t))
        dwy == DayWithinYear(t)
    IN CHOOSE m \in 0 .. 11 :
           MonthStart(m, leap) <= dwy /\ dwy < MonthStart(m + 1, leap)

DateFromTime(t) ==
    DayWithinYear(t)
        - MonthStart(MonthFromTime(t), IsLeapYear(YearFromTime(t))) + 1

MakeDay(year, month, date) ==
    IF IsNaN(year) \/ IsNaN(month) \/ IsNaN(date) THEN NaN
    ELSE LET ym == year + (month \div 12)
             mn == month % 12
         IN DayFromYear(ym) + MonthStart(mn, IsLeapYear(ym)) + date - 1

MakeDate(day, time) ==
    IF IsNaN(day) \/ IsNaN(time) THEN NaN ELSE day * MinPerDay + time

\* Number addition, with NaN absorbing
Plus(a, b) == IF IsNaN(a) \/ IsNaN(b) THEN NaN ELSE a + b

\* Date.prototype getters
getUTCFullYear(t) == IF IsNaN(t) THEN NaN ELSE YearFromTime(t)

getUTCMonth(t) == IF IsNaN(t) THEN NaN ELSE MonthFromTime(t)

getUTCDate(t) == IF IsNaN(t) THEN NaN ELSE DateFromTime(t)

\* Date.prototype setters: the time value the object holds afterwards
setUTCDate(t, dt) ==
    IF IsNaN(t) THEN NaN
    ELSE MakeDate(MakeDay(YearFromTime(t), MonthFromTime(t), dt),
                  TimeWithinDay(t))

setUTCMonth(t, m) ==
    IF IsNaN(t) THEN NaN
    ELSE MakeDate(MakeDay(YearFromTime(t), m, DateFromTime(t)),
                  TimeWithinDay(t))

setUTCFullYear(t, y) ==
    LET t0 == IF IsNaN(t) THEN 0 ELSE t
    IN MakeDate(MakeDay(y, MonthFromTime(t0), DateFromTime(t0)),
                TimeWithinDay(t0))

DaysInMonth(y, m) ==
    MonthStart(m, IsLeapYear(y)) - MonthStart(m - 1, IsLeapYear(y))

EmptyString == [y |-> 0, m |-> 0, d |-> 0]

\* new Date(dateString + "T00:00:00.000Z"): the time value of the new object.
\* A day past the month's end (2026-02-30) is an illegal element value:
\* engines either reject it (NaN) or roll it over into the next month.
NewDateFromString(s) ==
    IF s.m \in 1 .. 12 /\ s.d \in 1 .. 31
       /\ (s.d <= DaysInMonth(s.y, s.m) \/ lenientParse)
    THEN MakeDate(MakeDay(s.y, s.m - 1, s.d), 0)
    ELSE NaN


\* Date.prototype.toISOString of a valid time value, as its fields
toISOString(t) ==
    [y |-> YearFromTime(t), m |-> MonthFromTime(t) + 1, d |-> DateFromTime(t),
     min |-> TimeWithinDay(t)]

\* new Date(isoString) of a string toISOString produced
NewDateFromISO(iso) ==
    MakeDate(MakeDay(iso.y, iso.m - 1, iso.d), iso.min)

-----------------------------------------------------------------------------
(* dates.mjs.  A function that takes or makes Date objects takes the heap  *)
(* h and returns [heap |-> the heap afterwards, ret |-> what it returns].  *)

\* the bug "const result = date": the offset is applied to the argument itself
addDaysInPlace(h, date, days) ==
    [heap |-> [h EXCEPT ![date] = setUTCDate(h[date], Plus(getUTCDate(h[date]), days))],
     ret |-> date]

addDays(h, date, days) ==
    LET h1 == Append(h, h[date])
        result == Len(h1)
        h2 == [h1 EXCEPT ![result] =
                   setUTCDate(h1[result], Plus(getUTCDate(h1[result]), days))]
    IN [heap |-> h2, ret |-> result]

\* the bug "clamp to the last day of the target month"
addMonthsClamped(h, date, months) ==
    LET h1 == Append(h, h[date])
        result == Len(h1)
        t == h1[result]
        first == setUTCMonth(setUTCDate(t, 1), Plus(getUTCMonth(t), months))
        last == DaysInMonth(YearFromTime(first), MonthFromTime(first) + 1)
        dt == IF DateFromTime(t) > last THEN last ELSE DateFromTime(t)
    IN [heap |-> [h1 EXCEPT ![result] =
                      IF IsNaN(t) THEN NaN ELSE setUTCDate(first, dt)],
        ret |-> result]

addMonths(h, date, months) ==
    LET h1 == Append(h, h[date])
        result == Len(h1)
        h2 == [h1 EXCEPT ![result] =
                   setUTCMonth(h1[result], Plus(getUTCMonth(h1[result]), months))]
    IN [heap |-> h2, ret |-> result]

\* the bug "clamp 29 February to 28 February in a common year"
addYearsClamped(h, date, years) ==
    LET h1 == Append(h, h[date])
        result == Len(h1)
        t == h1[result]
        y == Plus(getUTCFullYear(t), years)
        feb29 == MonthFromTime(t) = 1 /\ DateFromTime(t) = 29
    IN [heap |-> [h1 EXCEPT ![result] =
                      IF IsNaN(t) THEN NaN
                      ELSE IF feb29 /\ ~IsLeapYear(y)
                           THEN setUTCFullYear(setUTCDate(t, 28), y)
                           ELSE setUTCFullYear(t, y)],
        ret |-> result]

\* the bug "addYears pasted from addMonths": the offset lands on the month field
addYearsOnMonthField(h, date, years) ==
    LET h1 == Append(h, h[date])
        result == Len(h1)
        h2 == [h1 EXCEPT ![result] =
                   setUTCMonth(h1[result], Plus(getUTCMonth(h1[result]), years))]
    IN [heap |-> h2, ret |-> result]

addYears(h, date, years) ==
    LET h1 == Append(h, h[date])
        result == Len(h1)
        h2 == [h1 EXCEPT ![result] =
                   setUTCFullYear(h1[result], Plus(getUTCFullYear(h1[result]), years))]
    IN [heap |-> h2, ret |-> result]

\* the bug "each offset is added to the previous entry"
calculateRevisionDatesChained(h, s) ==
    LET h0 == Append(h, NewDateFromString(s))
        startDate == Len(h0)
        r1 == addDays(h0, startDate, 7)
        r2 == addMonths(r1.heap, r1.ret, 1)
        r3 == addMonths(r2.heap, r2.ret, 3)
        r4 == addMonths(r3.heap, r3.ret, 6)
        r5 == addYears(r4.heap, r4.ret, 1)
    IN [heap |-> r5.heap, ret |-> <<r1.ret, r2.ret, r3.ret, r4.ret, r5.ret>>]

\* the bug "if (isNaN(startDate)) return []"
calculateRevisionDatesGuarded(h, s) ==
    LET h0 == Append(h, NewDateFromString(s))
        startDate == Len(h0)
        r1 == addDays(h0, startDate, 7)
        r2 == addMonths(r1.heap, startDate, 1)
        r3 == addMonths(r2.heap, startDate, 3)
        r4 == addMonths(r3.heap, startDate, 6)
        r5 == addYears(r4.heap, startDate, 1)
    IN IF IsNaN(h0[startDate]) THEN [heap |-> h0, ret |-> <<>>]
       ELSE [heap |-> r5.heap, ret |-> <<r1.ret, r2.ret, r3.ret, r4.ret, r5.ret>>]

calculateRevisionDates(h, s) ==
    LET h0 == Append(h, NewDateFromString(s))
        startDate == Len(h0)
        r1 == addDays(h0, startDate, 7)
        r2 == addMonths(r1.heap, startDate, 1)
        r3 == addMonths(r2.heap, startDate, 3)
        r4 == addMonths(r3.heap, startDate, 6)
        r5 == addYears(r4.heap, startDate, 1)
    IN [heap |-> r5.heap, ret |-> <<r1.ret, r2.ret, r3.ret, r4.ret, r5.ret>>]

\* the bug "no special case for 11..13"
getOrdinalSuffixNoTeens(num) ==
    IF IsNaN(num) THEN "th"
    ELSE CASE num % 10 = 1 -> "st"
           [] num % 10 = 2 -> "nd"
           [] num % 10 = 3 -> "rd"
           [] OTHER -> "th"

getOrdinalSuffix(num) ==
    IF IsNaN(num) THEN "th"
    ELSE IF num >= 11 /\ num <= 13 THEN "th"
    ELSE LET lastDigit == num % 10
         IN CASE lastDigit = 1 -> "st"
              [] lastDigit = 2 -> "nd"
              [] lastDigit = 3 -> "rd"
              [] OTHER -> "th"

MonthNames ==
    <<"January", "February", "March", "April", "May", "June", "July",
      "August", "September", "October", "November", "December">>

\* date.toLocaleDateString("en-GB", {month: "long", timeZone: "UTC"})
toLocaleMonthLong(t) ==
    IF IsNaN(t) THEN "Invalid Date" ELSE MonthNames[MonthFromTime(t) + 1]

NumberToString(x) == IF IsNaN(x) THEN "NaN" ELSE ToString(x)

formatDate(h, date) ==
    LET day == getUTCDate(h[date])
        month == toLocaleMonthLong(h[date])
        year == getUTCFullYear(h[date])
        ordinal == getOrdinalSuffix(day)
    IN [heap |-> h,
        ret |-> NumberToString(day) \o ordinal \o " " \o month \o " "
                    \o NumberToString(year)]

\* now.getFullYear(), now.getMonth(), now.getDate() on a host at offset tz
LocalTime(t, tz) == t + tz

getTodayUTC(tz) ==
    LET local == LocalTime(now, tz)
    IN MakeDate(MakeDay(YearFromTime(local), MonthFromTime(local),
                        DateFromTime(local)), 0)

\* the bug "date > today": a revision due today is not in the future
isFutureDateStrict(tz, t) ==
    LET today == getTodayUTC(tz)
    IN ~IsNaN(t) /\ ~IsNaN(today) /\ t > today

\* date >= today on Date objects: a comparison of time values, false on NaN
isFutureDate(tz, t) ==
    LET today == getTodayUTC(tz)
    IN ~IsNaN(t) /\ ~IsNaN(today) /\ t >= today

\* today.toISOString().split("T")[0]
getTodayString ==
    LET iso == toISOString(now)
    IN [y |-> iso.y, m |-> iso.m, d |-> iso.d]

-----------------------------------------------------------------------------
(* Bounds and input sets                                                   *)

\* the year of the unit test's start date, "2026-07-19"
TestYear == 2026

\* start dates under test: every day field 1..31 of every month of the
\* years TestYear - YearsBack .. TestYear + YearsAhead
YearsBack == 2

YearsAhead == 1

\* calls per run of the object harness
MaxCalls == 3

UnparseableString == [y |-> TestYear, m |-> 13, d |-> 1]

CalcDateStrings ==
    [y : (TestYear - YearsBack) .. (TestYear + YearsAhead), m : 1 .. 12, d : 1 .. 31]
        \cup {EmptyString, UnparseableString}

HeapDateStrings ==
    { [y |-> TestYear, m |-> 7, d |-> 19], [y |-> TestYear, m |-> 1, d |-> 31],
      [y |-> TestYear - 2, m |-> 2, d |-> 29], UnparseableString }

DayOffsets == {7, -1}

MonthOffsets == {1, 3, 6, -2}

YearOffsets == {1, -10}

\* the host clock's first instant: 19 July of TestYear, 22:30 UTC
Clock0 == MakeDate(MakeDay(TestYear, 6, 19), 22 * 60 + 30)

TzOffsets == {0, 60}

-----------------------------------------------------------------------------
(* Calculator harness: a caller that makes the start date's Date object    *)
(* (object 1) and calls the functions of dates.mjs on the objects alive.   *)

NoCall == [op |-> "none", count |-> 0, arg |-> 0, n |-> 0, ret |-> 0,
           rets |-> <<>>, str |-> ""]

CalcIdle ==
    /\ heap = <<>>
    /\ dateString = EmptyString
    /\ call = NoCall
    /\ fmtLog = <<>>

TwoHostIdle ==
    /\ outA = <<>>
    /\ outB = <<>>

AppInit ==
    /\ currentUserId = ""
    /\ storage = [u \in {} |-> <<>>]
    /\ agendaContent = [kind |-> "initial", items |-> <<>>]
    /\ sectionsShown = FALSE
    /\ errors = [topicName |-> "", startDate |-> ""]
    /\ event = [type |-> "load"]

CallAddDays(o, n) ==
    LET r == addDays(heap, o, n)
    IN /\ heap' = r.heap
       /\ call' = [NoCall EXCEPT !.op = "addDays", !.count = call.count + 1,
                                 !.arg = o, !.n = n, !.ret = r.ret]
       /\ UNCHANGED <<dateString, fmtLog, hostVars, twoHostVars, appVars>>

CallAddMonths(o, n) ==
    LET r == addMonths(heap, o, n)
    IN /\ heap' = r.heap
       /\ call' = [NoCall EXCEPT !.op = "addMonths", !.count = call.count + 1,
                                 !.arg = o, !.n = n, !.ret = r.ret]
       /\ UNCHANGED <<dateString, fmtLog, hostVars, twoHostVars, appVars>>

CallAddYears(o, n) ==
    LET r == addYears(heap, o, n)
    IN /\ heap' = r.heap
       /\ call' = [NoCall EXCEPT !.op = "addYears", !.count = call.count + 1,
                                 !.arg = o, !.n = n, !.ret = r.ret]
       /\ UNCHANGED <<dateString, fmtLog, hostVars, twoHostVars, appVars>>

\* arg: the startDate object the call made
CallCalculateRevisionDates ==
    LET r == calculateRevisionDates(heap, dateString)
    IN /\ heap' = r.heap
       /\ call' = [NoCall EXCEPT !.op = "calculateRevisionDates",
                                 !.count = call.count + 1,
                                 !.arg = Len(heap) + 1, !.rets = r.ret]
       /\ UNCHANGED <<dateString, fmtLog, hostVars, twoHostVars, appVars>>

CallFormatDate(o) ==
    LET r == formatDate(heap, o)
    IN /\ heap' = r.heap
       /\ call' = [NoCall EXCEPT !.op = "formatDate", !.count = call.count + 1,
                                 !.arg = o, !.str = r.ret]
       /\ fmtLog' = Append(fmtLog, <<o, r.ret>>)
       /\ UNCHANGED <<dateString, hostVars, twoHostVars, appVars>>

\* one call on the start date, over every start date string
InitCalc ==
    /\ now = Clock0 /\ tzOffset = 0 /\ tzOffsetB = 0
    /\ lenientParse \in BOOLEAN
    /\ dateString \in CalcDateStrings
    /\ heap = <<NewDateFromString(dateString)>>
    /\ call = NoCall
    /\ fmtLog = <<>>
    /\ TwoHostIdle
    /\ AppInit

Fresh == call.count = 0

NextCalc ==
    \/ \E n \in DayOffsets : Fresh /\ CallAddDays(1, n)
    \/ \E n \in MonthOffsets : Fresh /\ CallAddMonths(1, n)
    \/ \E n \in YearOffsets : Fresh /\ CallAddYears(1, n)
    \/ Fresh /\ CallCalculateRevisionDates
    \/ Fresh /\ CallFormatDate(1)

SpecCalc == InitCalc /\ [][NextCalc]_vars

\* up to MaxCalls calls on any objects alive, over a few start dates
InitHeap ==
    /\ now = Clock0 /\ tzOffset = 0 /\ tzOffsetB = 0
    /\ lenientParse = FALSE
    /\ dateString \in HeapDateStrings
    /\ heap = <<NewDateFromString(dateString)>>
    /\ call = NoCall
    /\ fmtLog = <<>>
    /\ TwoHostIdle
    /\ AppInit

MayCall == call.count < MaxCalls

NextHeap ==
    \/ \E o \in DOMAIN heap : MayCall /\ CallAddDays(o, 7)
    \/ \E o \in DOMAIN heap : MayCall /\ CallAddMonths(o, 1)
    \/ \E o \in DOMAIN heap : MayCall /\ CallAddYears(o, 1)
    \/ MayCall /\ CallCalculateRevisionDates
    \/ \E o \in DOMAIN heap : MayCall /\ CallFormatDate(o)

SpecHeap == InitHeap /\ [][NextHeap]_vars

-----------------------------------------------------------------------------
(* Reference calendar, counted day by day from 1 January 1970, against     *)
(* which the calculator's results are compared.                            *)

RefMonthLength(y, m) ==
    CASE m \in {4, 6, 9, 11} -> 30
      [] m = 2 -> IF (y % 4 = 0 /\ y % 100 # 0) \/ y % 400 = 0 THEN 29 ELSE 28
      [] OTHER -> 31

RECURSIVE RefDaysBeforeMonth(_, _)
RefDaysBeforeMonth(y, m) ==
    IF m = 1 THEN 0
    ELSE RefDaysBeforeMonth(y, m - 1) + RefMonthLength(y, m - 1)

\* 365 days a year since 1970, and one more for every 29 February
RefDaysBeforeYear(y) ==
    365 * (y - 1970)
        + Cardinality({k \in 1970 .. (y - 1) : RefMonthLength(k, 2) = 29})

\* the string names a day of the calendar
RealDate(s) == s.m \in 1 .. 12 /\ s.d \in 1 .. RefMonthLength(s.y, s.m)

\* UTC midnight of calendar day y-m-d
RefTime(y, m, d) ==
    (RefDaysBeforeYear(y) + RefDaysBeforeMonth(y, m) + d - 1) * MinPerDay

\* day d of the month k months after January of year 0, the days past that
\* month's end carried into the month after it
RefCarry(k, d) ==
    LET y == k \div 12
        m == (k % 12) + 1
        len == RefMonthLength(y, m)
    IN IF d <= len THEN RefTime(y, m, d)
       ELSE RefTime((k + 1) \div 12, ((k + 1) % 12) + 1, d - len)

RefAddMonths(s, n) == RefCarry(s.y * 12 + (s.m - 1) + n, s.d)

RefAddYears(s, n) == RefCarry((s.y + n) * 12 + (s.m - 1), s.d)

RefSuffix(d) ==
    CASE d \in {1, 21, 31} -> "st"
      [] d \in {2, 22} -> "nd"
      [] d \in {3, 23} -> "rd"
      [] OTHER -> "th"

Formatted(h, seq) == [i \in DOMAIN seq |-> formatDate(h, seq[i]).ret]

-----------------------------------------------------------------------------
(* Claims about the calculator                                             *)

\* C1: for every start date that is a real calendar day, calculateRevisionDates
\* returns exactly 5 dates, in order start + 7 days, + 1, + 3, + 6 calendar
\* months and + 1 calendar year, each counted from the start date itself;
\* for 2026-07-19 they read 26th July 2026, 19th August 2026,
\* 19th October 2026, 19th January 2027, 19th July 2027.
C1_Schedule ==
    (call.op = "calculateRevisionDates" /\ RealDate(dateString)) =>
        LET r == call.rets
            s == dateString
        IN /\ Len(r) = 5
           /\ heap[r[1]] = RefTime(s.y, s.m, s.d) + 7 * MinPerDay
           /\ heap[r[2]] = RefAddMonths(s, 1)
           /\ heap[r[3]] = RefAddMonths(s, 3)
           /\ heap[r[4]] = RefAddMonths(s, 6)
           /\ heap[r[5]] = RefAddYears(s, 1)
           /\ (s = [y |-> 2026, m |-> 7, d |-> 19]) =>
                  Formatted(heap, r) =
                      <<"26th July 2026", "19th August 2026", "19th October 2026",
                        "19th January 2027", "19th July 2027">>

C1_Witness ==
    /\ call.op = "calculateRevisionDates"
    /\ dateString = [y |-> 2026, m |-> 7, d |-> 19]
    /\ Len(call.rets) = 5
    /\ formatDate(heap, call.rets[1]).ret = "26th July 2026"

\* C2: addMonths adds n to the month field and keeps the day of the month;
\* days past the target month's end carry into the month after it, so
\* addMonths(2026-01-31, 1) is 3 March 2026, not 28 February 2026.
C2_AddMonthsCarries ==
    (call.op = "addMonths" /\ call.arg = 1 /\ RealDate(dateString)) =>
        /\ heap[call.ret] = RefAddMonths(dateString, call.n)
        /\ (dateString = [y |-> 2026, m |-> 1, d |-> 31] /\ call.n = 1) =>
               /\ toISOString(heap[call.ret]) = [y |-> 2026, m |-> 3, d |-> 3, min |-> 0]
               /\ heap[call.ret] # RefTime(2026, 2, 28)

C2_Witness ==
    /\ call.op = "addMonths" /\ call.arg = 1 /\ call.n = 1
    /\ dateString = [y |-> 2026, m |-> 1, d |-> 31]
    /\ formatDate(heap, call.ret).ret = "3rd March 2026"

\* C3: addYears adds n to the year field and keeps month and day; 29 February
\* with a common target year overflows into March, so
\* addYears(2024-02-29, 1) is 1 March 2025.
C3_AddYearsCarries ==
    (call.op = "addYears" /\ call.arg = 1 /\ RealDate(dateString)) =>
        /\ heap[call.ret] = RefAddYears(dateString, call.n)
        /\ (dateString = [y |-> 2024, m |-> 2, d |-> 29] /\ call.n = 1) =>
               toISOString(heap[call.ret]) = [y |-> 2025, m |-> 3, d |-> 1, min |-> 0]

C3_Witness ==
    /\ call.op = "addYears" /\ call.arg = 1 /\ call.n = 1
    /\ dateString = [y |-> 2024, m |-> 2, d |-> 29]
    /\ formatDate(heap, call.ret).ret = "1st March 2025"

\* C4: for every date with day of month d in 1..31, formatDate returns
\* "<d><suffix> <full English month name> <year>", the suffix being st for
\* 1, 21, 31, nd for 2, 22, rd for 3, 23 and th for every other d.
C4_FormatOrdinal ==
    (call.op = "formatDate" /\ call.arg = 1 /\ RealDate(dateString)) =>
        call.str = ToString(dateString.d) \o RefSuffix(dateString.d) \o " "
                       \o MonthNames[dateString.m] \o " " \o ToString(dateString.y)

C4_Witness ==
    /\ call.op = "formatDate" /\ call.arg = 1
    /\ dateString = [y |-> 2026, m |-> 7, d |-> 12]
    /\ call.str = "12th July 2026"

\* C10: for every start date that parses, the 5 dates calculateRevisionDates
\* returns are strictly increasing in the returned order, all strictly later
\* than the start date, and each at UTC midnight.
C10_Increasing ==
    (call.op = "calculateRevisionDates" /\ ~IsNaN(heap[call.arg])) =>
        LET r == call.rets
        IN /\ \A i \in DOMAIN r : ~IsNaN(heap[r[i]])
           /\ \A i \in DOMAIN r : heap[r[i]] > heap[call.arg]
           /\ \A i \in DOMAIN r : TimeWithinDay(heap[r[i]]) = 0
           /\ \A i, j \in DOMAIN r : i < j => heap[r[i]] < heap[r[j]]
           /\ RealDate(dateString) =>
                  heap[call.arg] = RefTime(dateString.y, dateString.m, dateString.d)

C10_Witness ==
    /\ call.op = "calculateRevisionDates"
    /\ dateString = [y |-> 2024, m |-> 2, d |-> 29]
    /\ Len(call.rets) = 5
    /\ formatDate(heap, call.rets[5]).ret = "1st March 2025"
    /\ formatDate(heap, call.rets[4]).ret = "29th August 2024"

\* C7: addDays, addMonths, addYears and formatDate never change the Date
\* object passed to them (nor any other object alive); each add* returns an
\* object that did not exist before the call; formatDate of the same object
\* gives the same string every time.
C7_NoMutation ==
    [][ /\ \A o \in DOMAIN heap : o \in DOMAIN heap' /\ heap'[o] = heap[o]
        /\ call'.op \in {"addDays", "addMonths", "addYears"} =>
               /\ call'.ret \in DOMAIN heap'
               /\ call'.ret \notin DOMAIN heap
               /\ call'.ret # call'.arg
        /\ \A i, j \in DOMAIN fmtLog' :
               fmtLog'[i][1] = fmtLog'[j][1] => fmtLog'[i][2] = fmtLog'[j][2]
      ]_vars

C7_Witness ==
    /\ Len(fmtLog) = 2
    /\ fmtLog[1][1] = 1 /\ fmtLog[2][1] = 1
    /\ fmtLog[1][2] = "19th July 2026" /\ fmtLog[2][2] = "19th July 2026"
    /\ call.op = "formatDate" /\ call.count = 3
    /\ Len(heap) = 2 /\ heap[2] # heap[1]

-----------------------------------------------------------------------------
(* The UI controller (script.mjs) with the storage and user directory      *)
(* behind it.                                                              *)

\* users offered by the dropdown
NumUsers == 2

\* successful submits explored
MaxSubmits == 2

\* hours the host clock advances
ClockSteps == 1

MaxTopicLength == 100

\* currentUserId = null, and the value of the dropdown's empty option
NoUser == ""

getUserIds == { ToString(i) : i \in 1 .. NumUsers }

Run(c, n) == [c |-> c, n |-> n]

\* two blanks; a blank, "<", MaxTopicLength - 1 b's and a blank; and
\* MaxTopicLength + 1 c's
TopicInputs ==
    { <<Run(" ", 2)>>,
      <<Run(" ", 1), Run("<", 1), Run("b", MaxTopicLength - 1), Run(" ", 1)>>,
      <<Run("c", MaxTopicLength + 1)>> }

\* missing, unparseable, six months before the clock's first day, and ten
\* years before it
StartDateInputs ==
    { EmptyString,
      UnparseableString,
      [y |-> TestYear, m |-> 1, d |-> 19],
      [y |-> TestYear - 10, m |-> 7, d |-> 19] }

\* storage.mjs
\* storage.mjs, on the stored data st
getData(st, userId) == IF userId \in DOMAIN st THEN st[userId] ELSE <<>>

addData(st, userId, items) ==
    [u \in DOMAIN st \cup {userId} |->
        IF u = userId THEN getData(st, u) \o items ELSE st[u]]

\* String.prototype.trim
trimStart(str) ==
    IF str # <<>> /\ Head(str).c = " " THEN Tail(str) ELSE str

trimEnd(str) ==
    IF str # <<>> /\ str[Len(str)].c = " "
    THEN SubSeq(str, 1, Len(str) - 1)
    ELSE str

trim(str) == trimEnd(trimStart(str))

\* String.prototype.length
RECURSIVE length(_)
length(str) == IF str = <<>> THEN 0 ELSE Head(str).n + length(Tail(str))

escapeHtml(unsafe) ==
    [i \in DOMAIN unsafe |->
        Run(CASE unsafe[i].c = "&" -> "&amp;"
              [] unsafe[i].c = "<" -> "&lt;"
              [] unsafe[i].c = ">" -> "&gt;"
              [] unsafe[i].c = "\"" -> "&quot;"
              [] unsafe[i].c = "'" -> "&#039;"
              [] OTHER -> unsafe[i].c,
            unsafe[i].n)]

\* a < b on Date objects: a comparison of time values, false on NaN
DateLess(a, b) == ~IsNaN(a) /\ ~IsNaN(b) /\ a < b

\* Array.prototype.sort((a, b) => new Date(a.date) - new Date(b.date)): stable
RECURSIVE insertByDate(_, _)
insertByDate(sorted, item) ==
    IF sorted = <<>> THEN <<item>>
    ELSE IF NewDateFromISO(item.date) - NewDateFromISO(sorted[Len(sorted)].date) < 0
         THEN Append(insertByDate(SubSeq(sorted, 1, Len(sorted) - 1), item),
                     sorted[Len(sorted)])
         ELSE Append(sorted, item)

RECURSIVE sortByDate(_)
sortByDate(items) ==
    IF items = <<>> THEN <<>>
    ELSE insertByDate(sortByDate(SubSeq(items, 1, Len(items) - 1)),
                      items[Len(items)])

\* the content of #agenda-content afterwards
displayUserAgenda(st, userId) ==
    LET userData == getData(st, userId)
        futureRevisions ==
            sortByDate(SelectSeq(userData,
                LAMBDA item : isFutureDate(tzOffset, NewDateFromISO(item.date))))
    IN IF userData = <<>> THEN [kind |-> "no-agenda", items |-> <<>>]
       ELSE IF futureRevisions = <<>> THEN [kind |-> "no-upcoming", items |-> <<>>]
       ELSE [kind |-> "list",
             items |-> [i \in DOMAIN futureRevisions |->
                 [date |-> formatDate(<<NewDateFromISO(futureRevisions[i].date)>>, 1).ret,
                  topic |-> escapeHtml(futureRevisions[i].topic)]]]

handleUserSelection(userId) ==
    /\ event' = [type |-> "change", value |-> userId]
    /\ IF userId = NoUser
       THEN /\ sectionsShown' = FALSE
            /\ currentUserId' = NoUser
            /\ UNCHANGED agendaContent
       ELSE /\ currentUserId' = userId
            /\ sectionsShown' = TRUE
            /\ agendaContent' = displayUserAgenda(storage, userId)
    /\ heap' = <<>>
    /\ call' = NoCall
    /\ UNCHANGED <<storage, errors, dateString, fmtLog, hostVars, twoHostVars>>

\* addYears(getTodayUTC(), -10), as a time value
tenYearsAgo ==
    LET r == addYears(<<getTodayUTC(tzOffset)>>, 1, -10)
    IN r.heap[r.ret]

topicNameError(topicName) ==
    IF topicName = <<>> THEN "Topic name is required"
    ELSE IF length(topicName) > MaxTopicLength
         THEN "Topic name must be 100 characters or less"
         ELSE ""

startDateError(startDate) ==
    IF startDate = EmptyString THEN "Start date is required"
    ELSE IF DateLess(NewDateFromString(startDate), tenYearsAgo)
         THEN "Start date cannot be more than 10 years in the past"
         ELSE ""

\* the bug "the raw field value is stored instead of the trimmed one"
agendaItemsUntrimmed(h, revisionDates, topicName, startDate) ==
    [i \in DOMAIN revisionDates |->
        [topic |-> <<Run(" ", 1)>> \o topicName, date |-> toISOString(h[revisionDates[i]]),
         startDate |-> startDate]]

\* revisionDates.map(date => ({topic, date: date.toISOString(), startDate}))
agendaItems(h, revisionDates, topicName, startDate) ==
    [i \in DOMAIN revisionDates |->
        [topic |-> topicName, date |-> toISOString(h[revisionDates[i]]),
         startDate |-> startDate]]

handleFormSubmit(rawTopicName, startDate) ==
    /\ event' = [type |-> "submit", topicName |-> rawTopicName, startDate |-> startDate]
    /\ UNCHANGED <<currentUserId, sectionsShown, dateString, fmtLog, hostVars, twoHostVars>>
    /\ IF currentUserId = NoUser
       THEN /\ errors' = [errors EXCEPT !.topicName = "Please select a user first"]
            /\ heap' = <<>>
            /\ call' = NoCall
            /\ UNCHANGED <<storage, agendaContent>>
       ELSE LET topicName == trim(rawTopicName)
                topicErr == topicNameError(topicName)
                dateErr == startDateError(startDate)
            IN IF topicErr # "" \/ dateErr # ""
               THEN /\ errors' = [topicName |-> topicErr, startDate |-> dateErr]
                    /\ heap' = <<>>
                    /\ call' = NoCall
                    /\ UNCHANGED <<storage, agendaContent>>
               ELSE LET r == calculateRevisionDates(<<>>, startDate)
                    IN /\ heap' = r.heap
                       /\ call' = [NoCall EXCEPT !.op = "calculateRevisionDates",
                                                 !.count = 1, !.arg = 1,
                                                 !.rets = r.ret]
                       /\ IF \E i \in DOMAIN r.ret : IsNaN(r.heap[r.ret[i]])
                          THEN \* toISOString throws RangeError: the catch block
                               /\ errors' = [topicName |-> "",
                                             startDate |-> "Invalid date selected"]
                               /\ UNCHANGED <<storage, agendaContent>>
                          ELSE LET stored == addData(storage, currentUserId,
                                       agendaItems(r.heap, r.ret, topicName, startDate))
                               IN /\ storage' = stored
                                  /\ errors' = [topicName |-> "", startDate |-> ""]
                                  /\ agendaContent' =
                                         displayUserAgenda(stored, currentUserId)

\* the host clock advances by an hour, no event being handled
Tick ==
    /\ now < Clock0 + ClockSteps * 60
    /\ now' = now + 60
    /\ event' = [type |-> "tick"]
    /\ UNCHANGED <<tzOffset, tzOffsetB, lenientParse, calcVars, twoHostVars,
                   currentUserId, storage, agendaContent, sectionsShown, errors>>

TotalRecords ==
    LET RECURSIVE Sum(_)
        Sum(S) == IF S = {} THEN 0
                  ELSE LET u == CHOOSE x \in S : TRUE
                       IN Len(storage[u]) + Sum(S \ {u})
    IN Sum(DOMAIN storage)

\* a host one hour east of UTC, at 23:30 local time
Init ==
    /\ now = Clock0
    /\ tzOffset = 60
    /\ tzOffsetB = 60
    /\ lenientParse = FALSE
    /\ CalcIdle
    /\ TwoHostIdle
    /\ AppInit

Next ==
    \/ \E u \in getUserIds \cup {NoUser} : handleUserSelection(u)
    \/ \E t \in TopicInputs, d \in StartDateInputs :
           TotalRecords < 5 * MaxSubmits /\ handleFormSubmit(t, d)
    \/ Tick

Spec == Init /\ [][Next]_vars

-----------------------------------------------------------------------------
(* Two hosts that differ only in their timezone offset read the same clock *)
(* and call the calculator with the same inputs.                           *)

ProbeGetTodayUTC ==
    /\ outA' = <<"getTodayUTC", toISOString(getTodayUTC(tzOffset))>>
    /\ outB' = <<"getTodayUTC", toISOString(getTodayUTC(tzOffsetB))>>
    /\ UNCHANGED <<hostVars, calcVars, appVars>>

ProbeIsFutureDate ==
    /\ outA' = <<"isFutureDate", isFutureDate(tzOffset, heap[1])>>
    /\ outB' = <<"isFutureDate", isFutureDate(tzOffsetB, heap[1])>>
    /\ UNCHANGED <<hostVars, calcVars, appVars>>

ProbeGetTodayString ==
    /\ outA' = <<"getTodayString", getTodayString>>
    /\ outB' = <<"getTodayString", getTodayString>>
    /\ UNCHANGED <<hostVars, calcVars, appVars>>

ProbeFormatDate ==
    /\ outA' = <<"formatDate", formatDate(heap, 1).ret>>
    /\ outB' = <<"formatDate", formatDate(heap, 1).ret>>
    /\ UNCHANGED <<hostVars, calcVars, appVars>>

ProbeAdd ==
    /\ \E n \in DayOffsets :
           LET r == addDays(heap, 1, n)
               v == <<"addDays", n, r.heap[r.ret]>>
           IN outA' = v /\ outB' = v
    /\ UNCHANGED <<hostVars, calcVars, appVars>>

ProbeCalculateRevisionDates ==
    /\ LET r == calculateRevisionDates(heap, dateString)
           v == <<"calculateRevisionDates", [i \in DOMAIN r.ret |-> r.heap[r.ret[i]]]>>
       IN outA' = v /\ outB' = v
    /\ UNCHANGED <<hostVars, calcVars, appVars>>

InitTwoHosts ==
    /\ now = Clock0
    /\ tzOffset \in TzOffsets
    /\ tzOffsetB \in TzOffsets
    /\ lenientParse = FALSE
    /\ dateString \in
           { [y |-> TestYear, m |-> 7, d |-> 19], [y |-> TestYear, m |-> 7, d |-> 20],
             [y |-> TestYear, m |-> 7, d |-> 21], UnparseableString }
    /\ heap = <<NewDateFromString(dateString)>>
    /\ call = NoCall
    /\ fmtLog = <<>>
    /\ TwoHostIdle
    /\ AppInit

NextTwoHosts ==
    \/ ProbeGetTodayUTC
    \/ ProbeIsFutureDate
    \/ ProbeGetTodayString
    \/ ProbeFormatDate
    \/ ProbeAdd
    \/ ProbeCalculateRevisionDates
    \/ Tick

SpecTwoHosts == InitTwoHosts /\ [][NextTwoHosts]_vars

\* C6: no calculator operation's result depends on the host's timezone
\* offset: two hosts at the same instant, given the same inputs, get the
\* same result from every operation.
C6_TimezoneIndependent == outA = outB

-----------------------------------------------------------------------------
(* Claims about the UI controller                                          *)

\* the step handles a submit event (the clock stands still meanwhile)
SubmitStep == event'.type = "submit" /\ now' = now

RefIsSpace(run) == run.c = " "

\* the runs of str from its first to its last run that is not white space
RefTrim(str) ==
    LET keep == {i \in DOMAIN str : ~RefIsSpace(str[i])}
    IN IF keep = {} THEN <<>>
       ELSE SubSeq(str, CHOOSE i \in keep : \A j \in keep : i <= j,
                        CHOOSE i \in keep : \A j \in keep : i >= j)

RECURSIVE RefLength(_)
RefLength(str) == IF str = <<>> THEN 0 ELSE Head(str).n + RefLength(Tail(str))

RefTopicOK(raw) == RefLength(RefTrim(raw)) \in 1 .. MaxTopicLength

\* getTodayUTC() minus 10 years
RefTenYearsAgo == RefAddYears(toISOString(getTodayUTC(tzOffset)), -10)

\* the start date is present, names a calendar day, and is not earlier
\* than getTodayUTC() minus 10 years
RefStartOK(s) ==
    /\ s # EmptyString
    /\ RealDate(s)
    /\ RefTime(s.y, s.m, s.d) >= RefTenYearsAgo

RefISOTime(iso) == RefTime(iso.y, iso.m, iso.d) + iso.min

\* C5 as stated: calculateRevisionDates fails and returns no schedule
\* whenever the start date does not parse; handleFormSubmit then shows
\* "Invalid date selected" and stores nothing.
C5_FailsOnInvalid ==
    (event.type = "submit" /\ call.op = "calculateRevisionDates"
        /\ IsNaN(NewDateFromString(event.startDate))) =>
        /\ call.rets = <<>>
        /\ errors.startDate = "Invalid date selected"

\* C5 amended: for a non-empty start date that does not parse,
\* calculateRevisionDates does not fail: it returns 5 Invalid Dates. In
\* handleFormSubmit (a user selected, the topic valid) converting them to
\* ISO strings throws, the message "Invalid date selected" is shown and
\* storage is unchanged.
C5_InvalidDates ==
    [][ ( /\ SubmitStep
          /\ currentUserId # NoUser
          /\ RefTopicOK(event'.topicName)
          /\ event'.startDate # EmptyString
          /\ IsNaN(NewDateFromString(event'.startDate)) ) =>
        ( /\ call'.op = "calculateRevisionDates"
          /\ Len(call'.rets) = 5
          /\ \A i \in DOMAIN call'.rets : IsNaN(heap'[call'.rets[i]])
          /\ errors'.startDate = "Invalid date selected"
          /\ storage' = storage )
      ]_vars

C5_Witness ==
    /\ event.type = "submit"
    /\ event.startDate = UnparseableString
    /\ currentUserId # NoUser
    /\ call.op = "calculateRevisionDates"
    /\ Len(call.rets) = 5
    /\ errors.startDate = "Invalid date selected"
    /\ Len(getData(storage, currentUserId)) = 5

\* C8: displayUserAgenda(u) shows exactly the stored records of u dated
\* >= getTodayUTC() (today's included), in non-decreasing order of date,
\* and none dated before today.
C8_Agenda ==
    [][ ( /\ now' = now
          /\ \/ event'.type = "change" /\ event'.value # NoUser
             \/ event'.type = "submit" /\ storage' # storage ) =>
        LET recs == getData(storage', currentUserId')
            today == getTodayUTC(tzOffset)
            key == [i \in DOMAIN recs |-> RefISOTime(recs[i].date)]
            future == {i \in DOMAIN recs : key[i] >= today}
            \* one more than the future records that sort before record i
            pos(i) == 1 + Cardinality({j \in future :
                          key[j] < key[i] \/ (key[j] = key[i] /\ j < i)})
            shown == agendaContent'.items
        IN /\ Len(shown) = Cardinality(future)
           /\ \A i \in future :
                  /\ shown[pos(i)].topic = escapeHtml(recs[i].topic)
                  /\ shown[pos(i)].date =
                         ToString(recs[i].date.d) \o RefSuffix(recs[i].date.d) \o " "
                             \o MonthNames[recs[i].date.m] \o " "
                             \o ToString(recs[i].date.y)
           /\ \A p \in 1 .. (Len(shown) - 1) :
                  \E i, j \in future :
                      pos(i) = p /\ pos(j) = p + 1 /\ key[i] <= key[j]
           /\ agendaContent'.kind = "list" <=> future # {}
      ]_vars

C8_Witness ==
    /\ agendaContent.kind = "list"
    /\ Len(agendaContent.items) = 4
    /\ agendaContent.items[1].date = "19th July 2026"
    /\ agendaContent.items[2].date = "19th July 2026"
    /\ agendaContent.items[4].date = "19th January 2027"
    /\ agendaContent.items[4].topic = <<Run("&lt;", 1), Run("b", MaxTopicLength - 1)>>
    /\ toISOString(getTodayUTC(tzOffset)) = [y |-> 2026, m |-> 7, d |-> 19, min |-> 0]
    /\ Len(getData(storage, currentUserId)) = 10

=============================================================================
